---------------------------- MODULE Spec2Model ----------------------------
(***************************************************************************)
(* twittov: a Markov-chain text generator over a corpus of tweets.         *)
(*                                                                         *)
(*   src/util.py     ingrams: the n-gram windower                          *)
(*   src/twittov.py  markov: one corpus item into the model                *)
(*                   TweetList._generate_distribution: the whole corpus    *)
(*                   TweetList.generate_text: the random walk              *)
(*                   __main__: option validation, then generate_text       *)
(*                                                                         *)
(* A Python 2 string is a sequence of characters, each an integer: a code   *)
(* point for an ASCII character of a str and for any character of a        *)
(* unicode, and -b for a byte b >= 128 of a str.  So 'a' and u'a' are the  *)
(* same value, as they are equal and hash alike in Python 2, and '\xe9'    *)
(* and u'\xe9' are different values, as they compare unequal.  A tweet     *)
(* also records whether it is a unicode or a str, which decides how        *)
(* split() reads it.  A token is a string: a word in word mode, a string   *)
(* of one character in character mode.  A Python tuple or list of tokens   *)
(* is a sequence of tokens.  The distribution (a dict from tuple to set)   *)
(* is a function whose DOMAIN is the dict's key set.                       *)
(***************************************************************************)
EXTENDS Integers, Sequences, FiniteSets

VARIABLES
    \* the program (src/twittov.py)
    tweets,        \* TweetList.tweets: the corpus, a list of strings
    order,         \* options.order
    length,        \* options.length
    split_words,   \* options.split_words: TRUE is character mode
    pc,            \* where the program is
    err,           \* how it failed, "none" while it has not
    distribution,  \* generate_text / _generate_distribution: the dict
    heads,         \* generate_text / _generate_distribution: the set
    idx,           \* _generate_distribution: index of the next tweet (from 1)
    prefix,        \* generate_text: the current window
    text,          \* generate_text: the list of tokens produced so far
    branch,        \* generate_text: the branch the last round of the loop took
    output,        \* generate_text: the bytes returned
    \* a direct call of the windower (src/util.py)
    in_sequence,   \* ingrams: argument sequence
    in_n,          \* ingrams: argument n
    in_pad_left,   \* ingrams: argument pad_left
    in_pad_right,  \* ingrams: argument pad_right
    ng_pc,         \* "call" before the call, "returned" after it
    ngrams         \* list(ingrams(...))

progVars == <<tweets, order, length, split_words, pc, err, distribution,
              heads, idx, prefix, text, branch, output>>
ngVars == <<in_sequence, in_n, in_pad_left, in_pad_right, ng_pc, ngrams>>
vars == <<progVars, ngVars>>

---------------------------------------------------------------------------
(* Bounds of the model.                                                    *)

MaxTweets == 2     \* corpus entries
MaxOrder == 2      \* options.order ranges over 0..MaxOrder
MaxLength == 4     \* options.length ranges over 0..MaxLength
MaxItem == 2       \* direct ingrams calls: items are 1..MaxItem
MaxSeqLen == 4     \* direct ingrams calls: sequences of at most this length
MaxN == 5          \* direct ingrams calls: n ranges over 0..MaxN

\* The corpus entries the model draws from.  In order:
\*   'a\x1cb \xe9'       a str: '\x1c' is no blank in it, so the first word
\*                       has three characters; the last byte is not ASCII
\*   u'a\tb'             two words around a tab
\*   u'a a\nb'           three words, a blank and a newline
\*   u'\xa0b \x1c\xe9'   blanks of unicode only, leading and repeated; a
\*                       word that is not ASCII
SampleTweets ==
    { [unicode |-> FALSE, chars |-> <<97, 28, 98, 32, -233>>],
      [unicode |-> TRUE,  chars |-> <<97, 9, 98>>],
      [unicode |-> TRUE,  chars |-> <<97, 32, 97, 10, 98>>],
      [unicode |-> TRUE,  chars |-> <<160, 98, 32, 28, 233>>] }

\* All sequences over S of length at most k.
SeqsUpTo(S, k) == UNION { [1..m -> S] : m \in 0..k }

\* The corpora: get_tweets raises TwitterAPIException when a page comes back
\* empty, so a TweetList holds at least one tweet.
Corpora == SeqsUpTo(SampleTweets, MaxTweets) \ {<<>>}

---------------------------------------------------------------------------
(* Python's list, str and tuple primitives.                                *)

Min(a, b) == IF a < b THEN a ELSE b
Max(a, b) == IF a > b THEN a ELSE b

\* s[:k] for any integer k (a negative k counts from the end).
SliceTo(s, k) ==
    LET stop == IF k < 0 THEN Max(Len(s) + k, 0) ELSE Min(k, Len(s))
    IN  SubSeq(s, 1, stop)

\* s[k:] for any integer k (a negative k counts from the end; -0 is 0).
SliceFrom(s, k) ==
    LET start == IF k < 0 THEN Max(Len(s) + k, 0) ELSE Min(k, Len(s))
    IN  SubSeq(s, start + 1, Len(s))

\* s[-1] of a non-empty sequence.
Last(s) == s[Len(s)]

\* Iterating a string yields its characters, each a string of length one.
Chars(s) == [i \in 1..Len(s) |-> <<s[i]>>]

\* The characters str.split() splits at: ' \t\n\r\x0b\x0c' (C locale).
StrWhitespace == {9, 10, 11, 12, 13, 32}

\* The characters unicode.split() splits at (Python 2.7, Unicode 5.2).
UnicodeWhitespace ==
    (9..13) \cup (28..32) \cup {133, 160, 5760, 6158} \cup (8192..8202)
        \cup {8232, 8233, 8239, 8287, 12288}

\* split() without arguments: the maximal runs of characters outside ws, in
\* order; leading, trailing and repeated blanks yield no empty word.
\* word is the run being read, out the words already finished.
RECURSIVE splitFrom(_, _, _, _)
splitFrom(s, ws, word, out) ==
    IF s = <<>>
    THEN IF word = <<>> THEN out ELSE Append(out, word)
    ELSE IF Head(s) \in ws
         THEN splitFrom(Tail(s), ws, <<>>,
                        IF word = <<>> THEN out ELSE Append(out, word))
         ELSE splitFrom(Tail(s), ws, Append(word, Head(s)), out)

\* tweet.split()
split(tweet) ==
    splitFrom(tweet.chars,
              IF tweet.unicode THEN UnicodeWhitespace ELSE StrWhitespace,
              <<>>, <<>>)

\* The str ' '.
Blank == <<32>>

\* separator.join(items) for a list of strings that Python can join.
RECURSIVE join(_, _)
join(separator, items) ==
    IF items = <<>> THEN <<>>
    ELSE IF Len(items) = 1 THEN items[1]
    ELSE items[1] \o separator \o join(separator, Tail(items))

\* A string with a byte that is not ASCII: decoding it raises
\* UnicodeDecodeError.
HasHighByte(s) == \E i \in 1..Len(s) : s[i] < 0

\* The UTF-8 bytes of one code point.
utf8(c) ==
    IF c < 128 THEN <<c>>
    ELSE IF c < 2048 THEN <<192 + (c \div 64), 128 + (c % 64)>>
    ELSE IF c < 65536
         THEN <<224 + (c \div 4096), 128 + ((c \div 64) % 64), 128 + (c % 64)>>
         ELSE <<240 + (c \div 262144), 128 + ((c \div 4096) % 64),
                128 + ((c \div 64) % 64), 128 + (c % 64)>>

\* A high surrogate (U+D800..U+DBFF) and a low surrogate (U+DC00..U+DFFF).
IsHighSurrogate(c) == c >= 55296 /\ c <= 56319
IsLowSurrogate(c) == c >= 56320 /\ c <= 57343

\* The code point a high surrogate and the low surrogate after it stand for.
SurrogatePair(hi, lo) == 65536 + (hi - 55296) * 1024 + (lo - 56320)

\* s.encode('utf-8') for a string without a byte that is not ASCII.  The
\* encoder reads the string as a whole: a high surrogate directly followed by
\* a low surrogate is one code point of four bytes; a surrogate alone is
\* encoded as it stands, in three bytes.
RECURSIVE encode(_)
encode(s) ==
    IF s = <<>> THEN <<>>
    ELSE IF Len(s) >= 2 /\ IsHighSurrogate(s[1]) /\ IsLowSurrogate(s[2])
         THEN utf8(SurrogatePair(s[1], s[2])) \o encode(Tail(Tail(s)))
         ELSE utf8(Head(s)) \o encode(Tail(s))

---------------------------------------------------------------------------
(* src/util.py: ingrams.                                                   *)

\* (pad_symbol,) * (n-1): empty when n-1 <= 0.
Padding(n, pad_symbol) == [i \in 1..(n - 1) |-> pad_symbol]

\* Variant of ingramsFor without del history[0]: the history keeps growing.
RECURSIVE ingramsFor_nodel(_, _, _)
ingramsFor_nodel(rest, history, out) ==
    IF rest = <<>> THEN out
    ELSE LET h == Append(history, Head(rest))
         IN  ingramsFor_nodel(Tail(rest), h, Append(out, h))

\* for item in sequence: history.append(item); yield tuple(history);
\* del history[0].  rest is what the iterator still holds, out the tuples
\* yielded so far.
RECURSIVE ingramsFor(_, _, _)
ingramsFor(rest, history, out) ==
    IF rest = <<>> THEN out
    ELSE LET h == Append(history, Head(rest))
         IN  ingramsFor(Tail(rest), Tail(h), Append(out, h))

\* while n > 1: history.append(sequence.next()); n -= 1.  When the iterator
\* runs out here, next() raises StopIteration inside the generator, which in
\* Python 2 ends the generator: the caller sees an exhausted iterator that
\* yielded nothing.
RECURSIVE ingramsWhile(_, _, _)
ingramsWhile(rest, n, history) ==
    IF n > 1
    THEN IF rest = <<>> THEN <<>>
         ELSE ingramsWhile(Tail(rest), n - 1, Append(history, Head(rest)))
    ELSE ingramsFor(rest, history, <<>>)

\* list(ingrams(sequence, n, pad_left, pad_right, pad_symbol)).
ingrams(sequence, n, pad_left, pad_right, pad_symbol) ==
    LET s1 == IF pad_left THEN Padding(n, pad_symbol) \o sequence ELSE sequence
        s2 == IF pad_right THEN s1 \o Padding(n, pad_symbol) ELSE s1
    IN  ingramsWhile(s2, n, <<>>)

---------------------------------------------------------------------------
(* src/twittov.py: markov.                                                 *)

\* Variant of markovInsert that assigns a fresh set in both branches: a later
\* suffix replaces the earlier ones.
markovInsert_overwrite(dist, ngram) ==
    LET pre == SliceTo(ngram, -1)
        suffix == Last(ngram)
    IN  [k \in DOMAIN dist \cup {pre} |->
            IF k = pre THEN {suffix} ELSE dist[k]]

\* The body of the for loop, for one ngram: the dict after it.
markovInsert(dist, ngram) ==
    LET pre == SliceTo(ngram, -1)
        suffix == Last(ngram)
    IN  IF pre \notin DOMAIN dist
        THEN [k \in DOMAIN dist \cup {pre} |->
                 IF k = pre THEN {suffix} ELSE dist[k]]
        ELSE [dist EXCEPT ![pre] = @ \cup {suffix}]

\* for ngram in ingrams(sequence, order+1): ... over the list grams.
RECURSIVE markovFor(_, _)
markovFor(dist, grams) ==
    IF grams = <<>> THEN dist
    ELSE markovFor(markovInsert(dist, Head(grams)), Tail(grams))

\* Variant of TooShort that is off by one: len(sequence) < order.
TooShort_offbyone(sequence, ord) == Len(sequence) < ord

\* The guard of the early return.
TooShort(sequence, ord) == Len(sequence) < ord + 1

\* Variant of markov that adds the head before the early return.
markov_headfirst(sequence, ord, dist, hds) ==
    IF Len(sequence) < ord + 1
    THEN [distribution |-> dist, heads |-> hds \cup {SliceTo(sequence, ord)}]
    ELSE [distribution |->
              markovFor(dist, ingrams(sequence, ord + 1, FALSE, FALSE, 0)),
          heads |-> hds \cup {SliceTo(sequence, ord)}]

\* markov(sequence, order, distribution, heads), called with a dict and a
\* set as _generate_distribution calls it: the dict and the set after the
\* call.  (The return value is not used by the caller.)
markov(sequence, ord, dist, hds) ==
    IF TooShort(sequence, ord)
    THEN [distribution |-> dist, heads |-> hds]
    ELSE [distribution |->
              markovFor(dist, ingrams(sequence, ord + 1, FALSE, FALSE, 0)),
          heads |-> hds \cup {SliceTo(sequence, ord)}]

\* The sequence _generate_distribution hands to markov for one tweet: the
\* string itself in character mode, tweet.split() in word mode.
Tokens(tweet, by_chars) ==
    IF by_chars THEN Chars(tweet.chars) ELSE split(tweet)

---------------------------------------------------------------------------
(* src/twittov.py: the program.                                            *)

EmptyDict == [k \in {} |-> {}]

\* options.cache_size: set by set_defaults and by no option (the --cache-size
\* option stores into options.amount).
cache_size == 200

\* What the program is given and never assigns.
inputs == <<tweets, order, length, split_words>>

Init ==
    /\ tweets \in Corpora
    /\ order \in 0..MaxOrder
    /\ length \in 0..MaxLength
    /\ split_words \in BOOLEAN
    /\ pc = "main"
    /\ err = "none"
    /\ distribution = EmptyDict
    /\ heads = {}
    /\ idx = 0
    /\ prefix = <<>>
    /\ text = <<>>
    /\ branch = "none"
    /\ output = <<>>
    /\ in_sequence = <<>>
    /\ in_n = 0
    /\ in_pad_left = FALSE
    /\ in_pad_right = FALSE
    /\ ng_pc = "idle"
    /\ ngrams = <<>>

\* __main__: the checks of the option values.
OptionsRejected == length <= 0 \/ cache_size <= 0

\* __main__: parser.error on a bad option value (exit status 2).
MainReject ==
    /\ pc = "main"
    /\ OptionsRejected
    /\ pc' = "error"
    /\ err' = "parser.error"
    /\ UNCHANGED <<inputs, distribution, heads, idx, prefix, text, branch,
                   output, ngVars>>

\* __main__ passes the checks and calls tweets.generate_text, which calls
\* _generate_distribution: distribution = {}, heads = set().
MainGenerate ==
    /\ pc = "main"
    /\ ~OptionsRejected
    /\ pc' = "generate_distribution"
    /\ distribution' = EmptyDict
    /\ heads' = {}
    /\ idx' = 1
    /\ UNCHANGED <<inputs, err, prefix, text, branch, output, ngVars>>

\* _generate_distribution: one round of the loop over self.tweets.
GenerateDistributionStep ==
    /\ pc = "generate_distribution"
    /\ idx <= Len(tweets)
    /\ LET r == markov(Tokens(tweets[idx], split_words), order,
                       distribution, heads)
       IN  /\ distribution' = r.distribution
           /\ heads' = r.heads
    /\ idx' = idx + 1
    /\ UNCHANGED <<inputs, pc, err, prefix, text, branch, output, ngVars>>

\* _generate_distribution returns.
GenerateDistributionReturn ==
    /\ pc = "generate_distribution"
    /\ idx > Len(tweets)
    /\ pc' = "pick_head"
    /\ UNCHANGED <<inputs, err, distribution, heads, idx, prefix, text,
                   branch, output, ngVars>>

\* Variant of PickHeadFail that goes on with an empty prefix instead of
\* raising.
PickHeadFail_silent ==
    /\ pc = "pick_head"
    /\ heads = {}
    /\ prefix' = <<>>
    /\ text' = <<>>
    /\ pc' = "loop"
    /\ UNCHANGED <<inputs, err, distribution, heads, idx, branch, output,
                   ngVars>>

\* generate_text: random.sample(heads, 1) of an empty set raises ValueError,
\* which nothing catches.
PickHeadFail ==
    /\ pc = "pick_head"
    /\ heads = {}
    /\ pc' = "error"
    /\ err' = "ValueError"
    /\ UNCHANGED <<inputs, distribution, heads, idx, prefix, text, branch,
                   output, ngVars>>

\* Variant of PickHead that starts from any key of the distribution.
PickHead_anykey ==
    /\ pc = "pick_head"
    /\ heads # {}
    /\ \E h \in DOMAIN distribution :
          /\ prefix' = h
          /\ text' = h
    /\ pc' = "loop"
    /\ UNCHANGED <<inputs, err, distribution, heads, idx, branch, output,
                   ngVars>>

\* generate_text: prefix = random.sample(heads, 1)[0]; text = list(prefix).
PickHead ==
    /\ pc = "pick_head"
    /\ \E h \in heads :
          /\ prefix' = h
          /\ text' = h
    /\ pc' = "loop"
    /\ UNCHANGED <<inputs, err, distribution, heads, idx, branch, output,
                   ngVars>>

\* Variant of LoopCond with <= for <.
LoopCond_le == Len(text) <= length

\* while len(text) < length
LoopCond == Len(text) < length

\* generate_text, a round of the loop with the prefix in the distribution.
GenSuccessor ==
    /\ pc = "loop"
    /\ LoopCond
    /\ prefix \in DOMAIN distribution
    /\ \E suffix \in distribution[prefix] :
          /\ text' = Append(text, suffix)
          /\ prefix' = SliceFrom(Append(text, suffix), -order)
    /\ branch' = "successor"
    /\ UNCHANGED <<inputs, pc, err, distribution, heads, idx, output, ngVars>>

\* Variant of GenRestart without text.extend(prefix).
GenRestart_noextend ==
    /\ pc = "loop"
    /\ LoopCond
    /\ prefix \notin DOMAIN distribution
    /\ \E h \in heads :
          /\ prefix' = h
          /\ text' = (IF split_words THEN Append(text, Blank) ELSE text)
    /\ branch' = "restart"
    /\ UNCHANGED <<inputs, pc, err, distribution, heads, idx, output, ngVars>>

\* Variant of GenRestart that appends the ' ' in both modes.
GenRestart_sepalways ==
    /\ pc = "loop"
    /\ LoopCond
    /\ prefix \notin DOMAIN distribution
    /\ \E h \in heads :
          /\ prefix' = h
          /\ text' = Append(text, Blank) \o h
    /\ branch' = "restart"
    /\ UNCHANGED <<inputs, pc, err, distribution, heads, idx, output, ngVars>>

\* generate_text, a round of the loop at the end of a chain: a new head,
\* after a ' ' in character mode.
GenRestart ==
    /\ pc = "loop"
    /\ LoopCond
    /\ prefix \notin DOMAIN distribution
    /\ \E h \in heads :
          /\ prefix' = h
          /\ text' = (IF split_words THEN Append(text, Blank) ELSE text) \o h
    /\ branch' = "restart"
    /\ UNCHANGED <<inputs, pc, err, distribution, heads, idx, output, ngVars>>

\* separator.join(text).encode('utf-8') raises UnicodeDecodeError: a str
\* with a byte that is not ASCII is decoded as ASCII, by join when another
\* item is a unicode and by encode otherwise.
ReturnRaises == \E i \in 1..Len(text) : HasHighByte(text[i])

\* generate_text: the loop is over; join, encode and return.
GenReturn ==
    /\ pc = "loop"
    /\ ~LoopCond
    /\ ~ReturnRaises
    /\ output' = encode(join(IF split_words THEN <<>> ELSE Blank, text))
    /\ pc' = "done"
    /\ UNCHANGED <<inputs, err, distribution, heads, idx, prefix, text,
                   branch, ngVars>>

\* generate_text: the loop is over; the return statement raises.
GenReturnFail ==
    /\ pc = "loop"
    /\ ~LoopCond
    /\ ReturnRaises
    /\ pc' = "error"
    /\ err' = "UnicodeDecodeError"
    /\ UNCHANGED <<inputs, distribution, heads, idx, prefix, text, branch,
                   output, ngVars>>

Next ==
    \/ MainReject
    \/ MainGenerate
    \/ GenerateDistributionStep
    \/ GenerateDistributionReturn
    \/ PickHeadFail
    \/ PickHead
    \/ GenSuccessor
    \/ GenRestart
    \/ GenReturn
    \/ GenReturnFail

Spec == Init /\ [][Next]_vars

\* The program runs on while it can: one thread, no blocking call once the
\* corpus is in memory.
FairSpec == Spec /\ WF_vars(Next)

---------------------------------------------------------------------------
(* A direct call of ingrams on a sequence of integers, as in its docstring.*)
(* pad_symbol keeps its default None, written 0 (no item is 0).            *)

InitIngrams ==
    /\ in_sequence \in SeqsUpTo(1..MaxItem, MaxSeqLen)
    /\ in_n \in 0..MaxN
    /\ in_pad_left \in BOOLEAN
    /\ in_pad_right \in BOOLEAN
    /\ ng_pc = "call"
    /\ ngrams = <<>>
    /\ tweets = <<>>      \* no TweetList: the program is not run
    /\ order = 0
    /\ length = 0
    /\ split_words = FALSE
    /\ pc = "idle"
    /\ err = "none"
    /\ distribution = EmptyDict
    /\ heads = {}
    /\ idx = 0
    /\ prefix = <<>>
    /\ text = <<>>
    /\ branch = "none"
    /\ output = <<>>

IngramsCall ==
    /\ ng_pc = "call"
    /\ ngrams' = ingrams(in_sequence, in_n, in_pad_left, in_pad_right, 0)
    /\ ng_pc' = "returned"
    /\ UNCHANGED <<in_sequence, in_n, in_pad_left, in_pad_right, progVars>>

NextIngrams == IngramsCall

SpecIngrams == InitIngrams /\ [][NextIngrams]_vars

---------------------------------------------------------------------------
(* Properties.                                                             *)

\* The corpus as markov sees it: one token sequence per tweet.
Items == { Tokens(tweets[i], split_words) : i \in 1..Len(tweets) }

\* Every corpus item has fewer than order+1 tokens.
AllItemsShort == \A S \in Items : Len(S) < order + 1

\* _generate_distribution has returned.
Built ==
    \/ pc \in {"pick_head", "loop", "done"}
    \/ pc = "error" /\ err \in {"ValueError", "UnicodeDecodeError"}

\* The loop of generate_text is over: the text was returned, or the return
\* statement raised.
LoopExited ==
    \/ pc = "done"
    \/ pc = "error" /\ err = "UnicodeDecodeError"

\* The transitions of the corpus: <<S[i:i+order], S[i+order]>> for every
\* item S and position i (from 1 here) with a token after the window.
Transitions ==
    UNION { { <<SubSeq(S, i, i + order - 1), S[i + order]>> :
                i \in 1..(Len(S) - order) } : S \in Items }

\* C1: when every corpus item is shorter than order+1 tokens, the head set
\* stays empty, no token is ever appended, the loop is never entered, no
\* text is returned, the step taken at the head selection is the failure
\* with ValueError, and the run ends in an error.
C1_EmptyModelFails ==
    /\ [](AllItemsShort =>
            /\ heads = {}
            /\ text = <<>>
            /\ output = <<>>
            /\ pc # "loop"
            /\ ~LoopExited)
    /\ [][(AllItemsShort /\ pc = "pick_head") =>
            (pc' = "error" /\ err' = "ValueError")]_vars
    /\ (AllItemsShort ~> (pc = "error"))

C1_Witness ==
    /\ AllItemsShort
    /\ order >= 1
    /\ \E S \in Items : Len(S) >= 1
    /\ pc = "error"
    /\ err = "ValueError"

\* C2 as stated: at the exit of the loop the token sequence has at least
\* length and at most length + order - 1 tokens, in both modes.
C2_LengthWindow_AsStated ==
    (LoopExited /\ order >= 1 /\ length >= 1) =>
        (Len(text) >= length /\ Len(text) <= length + order - 1)

\* C2, amended: at the exit of the loop the token sequence has at least
\* length tokens, at most length + order - 1 in word mode, and at most
\* length + order in character mode (a restart appends ' ' and a head).
C2_LengthWindow ==
    (LoopExited /\ order >= 1 /\ length >= 1) =>
        /\ Len(text) >= length
        /\ Len(text) <= length + order - 1 + (IF split_words THEN 1 ELSE 0)

C2_Witness ==
    /\ pc = "done"
    /\ split_words
    /\ order = 2
    /\ length > order
    /\ Len(text) = length + order

\* C3: for order >= 1 every round of the loop starts below the target
\* length and makes the token sequence longer, by one token on a successor
\* round and by at least order tokens on a restart round; and a loop that
\* has started ends (the return statement is reached).
C3_LoopProgress ==
    /\ [][(order >= 1 /\ pc = "loop" /\ pc' = "loop") =>
            /\ Len(text) < length
            /\ \/ /\ prefix \in DOMAIN distribution
                  /\ Len(text') = Len(text) + 1
               \/ /\ prefix \notin DOMAIN distribution
                  /\ Len(text') >= Len(text) + order]_vars
    /\ ((order >= 1 /\ pc = "loop") ~> LoopExited)

C3_Witness ==
    /\ pc = "done"
    /\ order = 2
    /\ ~split_words
    /\ branch = "restart"
    /\ Len(text) = length + 1

\* C4: after the build the distribution holds exactly the transitions of
\* the corpus: its keys are the windows that have a token after them, and
\* the set of a key is the set of the tokens found after it.
C4_ExactTransitions ==
    Built =>
        /\ DOMAIN distribution = { t[1] : t \in Transitions }
        /\ \A k \in DOMAIN distribution :
              distribution[k] = { t[2] : t \in { u \in Transitions : u[1] = k } }

C4_Witness ==
    /\ Built
    /\ order = 2
    /\ Len(tweets) >= 2
    /\ \E k \in DOMAIN distribution : Cardinality(distribution[k]) >= 2
    /\ Cardinality(DOMAIN distribution) >= 3

\* C5: after the build the head set is exactly the set of the first windows
\* of the items with at least order+1 tokens; and the markov call for an
\* item with fewer tokens changes neither the distribution nor the head set.
C5_ExactHeads ==
    /\ [](Built =>
            heads = { SubSeq(S, 1, order) : S \in { T \in Items : Len(T) >= order + 1 } })
    /\ [][(/\ pc = "generate_distribution"
           /\ idx <= Len(tweets)
           /\ Len(Tokens(tweets[idx], split_words)) < order + 1) =>
            (distribution' = distribution /\ heads' = heads)]_vars

C5_Witness ==
    /\ Built
    /\ order >= 1
    /\ heads # {}
    /\ \E S \in Items : Len(S) >= 1 /\ Len(S) < order + 1

\* C6: for 1 <= n <= len(S) the unpadded ingrams(S, n) yields len(S)-n+1
\* tuples, the k-th being S[k..k+n-1]; for n > len(S) it yields nothing.
C6_Windows ==
    (ng_pc = "returned" /\ ~in_pad_left /\ ~in_pad_right /\ in_n >= 1) =>
        IF in_n <= Len(in_sequence)
        THEN /\ Len(ngrams) = Len(in_sequence) - in_n + 1
             /\ \A k \in 1..Len(ngrams) :
                   ngrams[k] = SubSeq(in_sequence, k, k + in_n - 1)
        ELSE ngrams = <<>>

C6_Witness ==
    /\ ng_pc = "returned"
    /\ ~in_pad_left
    /\ ~in_pad_right
    /\ in_n = 3
    /\ Len(in_sequence) = 4
    /\ Len(ngrams) = 2

\* C7 as stated: with order <= 0 or length <= 0 the program ends in an
\* error before _generate_distribution or generate_text is called.
C7_NonPositiveRejected ==
    (order <= 0 \/ length <= 0) => pc \in {"main", "error"} /\ ~Built

\* C8: for order >= 1 the token sequence begins with a window h of the head
\* set, h is a key, a token at position order (from 0) is a successor of h,
\* the first round of the loop finds its prefix in the distribution, and
\* with length > order the text has that token when the loop is over.
C8_StartsWithHead ==
    (order >= 1 /\ (pc = "loop" \/ LoopExited)) =>
        \E h \in heads :
            /\ h = SubSeq(text, 1, order)
            /\ h \in DOMAIN distribution
            /\ Len(text) > order => text[order + 1] \in distribution[h]
            /\ (pc = "loop" /\ Len(text) = order) => prefix = h
            /\ (LoopExited /\ length > order) => Len(text) > order

C8_Witness ==
    /\ pc = "done"
    /\ order >= 1
    /\ length > order
    /\ Cardinality(heads) >= 2
    /\ Cardinality(distribution[SubSeq(text, 1, order)]) >= 2

\* C9 as stated: a round that starts with the prefix not a key appends
\* exactly the tokens of one window of the head set, in both modes, and
\* makes that window the prefix.
C9_Restart_AsStated ==
    [][(pc = "loop" /\ Len(text) < length /\ prefix \notin DOMAIN distribution) =>
        \E h \in heads : text' = text \o h /\ prefix' = h]_vars

\* C9, amended: a round that starts with the prefix not a key appends
\* exactly the tokens of one window of the head set in word mode, and the
\* token ' ' followed by the tokens of one window of the head set in
\* character mode; that window is the new prefix.
C9_Restart ==
    [][(pc = "loop" /\ Len(text) < length /\ prefix \notin DOMAIN distribution) =>
        \E h \in heads :
            /\ prefix' = h
            /\ text' = text \o (IF split_words THEN << Blank >> ELSE <<>>) \o h]_vars

C9_Witness ==
    /\ branch = "restart"
    /\ split_words
    /\ order = 2
    /\ Len(text) >= 2 * order + 1
    /\ text[Len(text) - order] = Blank
    /\ SubSeq(text, Len(text) - order + 1, Len(text)) \in heads

\* C10: for order >= 1 every window of the head set is a key of the
\* distribution, after any number of markov calls; and after a restart
\* round the prefix is a key, so that the next round is not a restart.
C10_HeadsAreKeys ==
    order >= 1 =>
        /\ heads \subseteq DOMAIN distribution
        /\ (pc = "loop" /\ branch = "restart") => prefix \in DOMAIN distribution

C10_Witness ==
    /\ order >= 1
    /\ pc = "loop"
    /\ branch = "restart"
    /\ Len(text) < length
    /\ Cardinality(heads) >= 2

===========================================================================
